---------------------------- MODULE Spec2Model ----------------------------
(***************************************************************************)
(* A model of package parallel (src/group.go): the Group coordinator.      *)
(*                                                                         *)
(* A Group owns a context derived from its parent context, and the fields  *)
(* running, done, closing and err, guarded by one mutex.  Every section of *)
(* the code that runs under g.mu is one action here.  The code outside the *)
(* mutex (a task body, the channel receive of Wait, the unlocked read of   *)
(* g.err in Wait, the select and the ctx.Err() of Complete) is one action  *)
(* per step, so that every interleaving of them is explored.               *)
(***************************************************************************)
EXTENDS Integers, Sequences, FiniteSets

(***************************************************************************)
(* Bounds of the model.                                                    *)
(***************************************************************************)
\* the number of task slots: Spawn is called at most MaxTasks times
MaxTasks == 2
\* the number of concurrent callers of Wait and Complete
NCallers == 1

Tasks == 1..MaxTasks
Callers == 1..NCallers
\* the goroutine of the task that NewSubgroup spawns: it calls g.Complete
Attach == 0
Goroutines == {Attach} \cup Callers

(***************************************************************************)
(* Groups.  Root is a group made by NewGroup(outer); Sub is a group nested *)
(* in Root, whose context derives from Root's.                             *)
(***************************************************************************)
Root == "root"
Sub == "sub"
Groups == {Root, Sub}

(***************************************************************************)
(* Error values.  An error is a record of a kind and an argument; Nil is   *)
(* Go's nil error.                                                         *)
(***************************************************************************)
Nil == [kind |-> "nil", arg |-> ""]
\* context.Canceled
Canceled == [kind |-> "context canceled", arg |-> ""]
\* errors.New(msg): an ordinary error of a task or of a caller
Err(msg) == [kind |-> "error", arg |-> msg]
\* an error that wraps context.Canceled, such as errors.WithStack(ctx.Err())
WrappedCanceled == [kind |-> "wrapped", arg |-> "context canceled"]
\* errors.Errorf("task %s terminated unexpectedly", name)
Unexpected(name) == [kind |-> "terminated unexpectedly", arg |-> name]
\* errors.Errorf("task %s: %v", name, onExit)
BadOnExit(name) == [kind |-> "unrecognized onExit", arg |-> name]

(***************************************************************************)
(* PanicError: the error a panic of a task is turned into.  Value is the   *)
(* payload of the panic: a string, or an error.  A payload is a record of  *)
(* the shape of an error, of kind "string" when it is no error.            *)
(***************************************************************************)
StrVal(s) == [kind |-> "string", arg |-> s]
\* the values a task panics with: a string, an error, a cancellation
Payloads == {StrVal("oops"), Err("oops"), Canceled}

\* PanicError{Value: v}
PanicError(v) ==
    [kind |-> CASE v.kind = "string" -> "panic: string"
                [] v.kind = "error" -> "panic: error"
                [] v.kind = "context canceled" -> "panic: context canceled",
     arg |-> v.arg]

IsPanicError(err) ==
    err.kind \in {"panic: string", "panic: error", "panic: context canceled"}

\* err.Value of a PanicError
Value(err) ==
    [kind |-> CASE err.kind = "panic: string" -> "string"
                [] err.kind = "panic: error" -> "error"
                [] err.kind = "panic: context canceled" -> "context canceled",
     arg |-> err.arg]

\* PanicError.Unwrap: Value when Value is an error, nothing otherwise
PanicUnwrap(err) == IF Value(err).kind # "string" THEN Value(err) ELSE Nil

\* Unwrap: the error an error wraps, Nil when it wraps none
Unwrap(err) ==
    IF err.kind = "wrapped" THEN Canceled
    ELSE IF IsPanicError(err) THEN PanicUnwrap(err)
    ELSE Nil

\* errors.Is(err, target): err or an error of its Unwrap chain is target
RECURSIVE Is(_, _)
Is(err, target) ==
    IF err = Nil THEN FALSE
    ELSE IF err = target THEN TRUE
    ELSE Is(Unwrap(err), target)

\* the errors a task body returns, and the errors a caller hands to Exit
TaskErrors == {Nil, Err("E1"), Err("E2"), Canceled, WrappedCanceled}

(***************************************************************************)
(* OnExit modes.  ExitMode is the mode Exit (the name Exit is the method   *)
(* Group.Exit here).  The switch of Group.runTask has a default branch for *)
(* a value that is none of the three; exitArg models it, and the modes     *)
(* that Spawn is called with here are the three named ones.                *)
(***************************************************************************)
Continue == "Continue"
ExitMode == "Exit"
Fail == "Fail"
OnExit == {Continue, ExitMode, Fail}

\* the name a task is spawned under
Name(t) == <<"t1", "t2", "t3", "t4", "t5">>[t]

VARIABLES
    outer,    \* outer.Err() of the context Root was made from: Nil while live
    G,        \* the groups: G[g] is the Group struct of g
    crashed,  \* TRUE once a closed channel was closed again (a Go panic)
    T,        \* the task slots: the goroutines started by Spawn
    W,        \* the callers of Wait and Complete
    R,        \* the goroutine of Run
    hist      \* history of each group, read by the properties only

vars == <<outer, G, crashed, T, W, R, hist>>

(***************************************************************************)
(* Contexts.  g.ctx is context.WithCancel(parent): it is done once g's     *)
(* cancel was called or its parent is done, and its Err() is the error of  *)
(* whichever came first.  Cancelling a context cancels the contexts        *)
(* derived from it.                                                        *)
(***************************************************************************)
\* h's context is g's or derives from it
Descends(h, g) == h = g \/ (h = Sub /\ g = Root)

\* the contexts of g and of the groups below it are cancelled with error e
cancelCtx(GG, g, e) ==
    [h \in Groups |->
        IF Descends(h, g) /\ GG[h].exists /\ GG[h].ctxErr = Nil
        THEN [GG[h] EXCEPT !.ctxErr = e]
        ELSE GG[h]]

\* g.cancel(): the CancelFunc of g.ctx
cancel(GG, g) ==
    cancelCtx([GG EXCEPT ![g].cancels = IF @ < 2 THEN @ + 1 ELSE @], g, Canceled)

\* Err() of the context g was made from
ParentErr(g) == IF g = Root THEN outer ELSE G[Root].ctxErr

\* g.Context().Err()
Context(g) == G[g].ctxErr

(***************************************************************************)
(* The Group struct.                                                       *)
(*                                                                         *)
(* Channels.  A channel made by Spawn or NewGroup is known to the group,   *)
(* as g.done, and to the callers that got it from Done().  G[g].done is    *)
(* the state of the channel g.done: Open or Closed.  The channel of a      *)
(* caller is Current while it still is g.done; when Spawn puts a new       *)
(* channel in g.done, the channel of that caller is no longer the group's  *)
(* and keeps the state it has, Open or Closed: the code closes g.done only.*)
(***************************************************************************)
Open == "open"
Closed == "closed"
Current == "g.done"
NoChan == "none"

\* a group that was not made yet
NoGroup ==
    [exists |-> FALSE, ctxErr |-> Nil, cancels |-> 0, running |-> 0,
     done |-> Closed, closing |-> FALSE, err |-> Nil]

\* NewGroup, were it to leave out close(g.done)
NewGroupOpen(parentErr) ==
    [exists |-> TRUE, ctxErr |-> parentErr, cancels |-> 0, running |-> 0,
     done |-> Open, closing |-> FALSE, err |-> Nil]

\* NewGroup(ctx), ctx.Err() being parentErr: g.done is made and closed
NewGroup(parentErr) ==
    [exists |-> TRUE, ctxErr |-> parentErr, cancels |-> 0, running |-> 0,
     done |-> Closed, closing |-> FALSE, err |-> Nil]

\* a task slot no Spawn has used
\* (failed: the task has returned a non-nil error; sub: the task is the one
\* NewSubgroup has spawned)
NoTask ==
    [st |-> "unspawned", grp |-> Root, onExit |-> Continue, failed |-> FALSE,
     sub |-> FALSE]

\* a caller that has called nothing
Idle ==
    [pc |-> "idle", kind |-> "none", grp |-> Root, ch |-> NoChan, pre |-> 0,
     got |-> Nil, ret |-> Nil]

\* the tasks of g that Spawn has counted and that have not reported
Active(g) == {t \in Tasks : T[t].grp = g /\ T[t].st = "running"}

\* the number of task slots Spawn has used
Spawned == Cardinality({t \in Tasks : T[t].st # "unspawned"})

\* The history of a group.  firstFail: the first non-nil error g.exit was
\* called with.  firstKept: the first non-nil error g.exit was called with
\* and did not drop as a cancellation during shutdown.  orderly: a task of
\* mode Exit has returned nil while the result was nil.
\* the goroutine of Run, when Run was not called
NoRun == [pc |-> "none", err |-> Nil, clean |-> FALSE, kept |-> FALSE]

\* parentNil: the parent of the group had no result when firstKept was set
\* quiet: g.exit(nil) has set closing while the parent of the group was not
\* closing and the outer context was live
NoHist ==
    [firstFail |-> Nil, firstKept |-> Nil, orderly |-> FALSE, parentNil |-> FALSE,
     quiet |-> FALSE]

Init ==
    /\ outer = Nil
    /\ G = [g \in Groups |-> IF g = Root THEN NewGroup(Nil) ELSE NoGroup]
    /\ crashed = FALSE
    /\ T = [t \in Tasks |-> NoTask]
    /\ W = [w \in Goroutines |-> Idle]
    /\ R = NoRun
    /\ hist = [g \in Groups |-> NoHist]

(***************************************************************************)
(* Group.exit, called with g.mu held.                                      *)
(***************************************************************************)
\* exit, were every call to overwrite g.err
exitLastWins(GG, g, err) ==
    IF GG[g].closing /\ Is(err, Canceled)
    THEN GG
    ELSE LET G1 == [GG EXCEPT ![g].err = err]
         IN  IF ~G1[g].closing
             THEN cancel([G1 EXCEPT ![g].closing = TRUE], g)
             ELSE G1

\* exit, were it not to drop the cancellations that arrive during shutdown
exitNoSuppress(GG, g, err) ==
    LET G1 == IF GG[g].err = Nil THEN [GG EXCEPT ![g].err = err] ELSE GG
    IN  IF ~G1[g].closing
        THEN cancel([G1 EXCEPT ![g].closing = TRUE], g)
        ELSE G1

\* exit, were the test of g.err inverted: g.err is never set
exitInverted(GG, g, err) ==
    IF GG[g].closing /\ Is(err, Canceled)
    THEN GG
    ELSE LET G1 == IF GG[g].err # Nil THEN [GG EXCEPT ![g].err = err] ELSE GG
         IN  IF ~G1[g].closing
             THEN cancel([G1 EXCEPT ![g].closing = TRUE], g)
             ELSE G1

\* exit, were it to set closing and leave g.cancel() out
exitNoCancel(GG, g, err) ==
    IF GG[g].closing /\ Is(err, Canceled)
    THEN GG
    ELSE LET G1 == IF GG[g].err = Nil THEN [GG EXCEPT ![g].err = err] ELSE GG
         IN  [G1 EXCEPT ![g].closing = TRUE]

\* exit, were it to test err == context.Canceled in place of errors.Is
exitExact(GG, g, err) ==
    IF GG[g].closing /\ err = Canceled
    THEN GG
    ELSE LET G1 == IF GG[g].err = Nil THEN [GG EXCEPT ![g].err = err] ELSE GG
         IN  IF ~G1[g].closing
             THEN cancel([G1 EXCEPT ![g].closing = TRUE], g)
             ELSE G1

\* exit, were it to call g.cancel() on every call it does not drop
exitCancelAlways(GG, g, err) ==
    IF GG[g].closing /\ Is(err, Canceled)
    THEN GG
    ELSE LET G1 == IF GG[g].err = Nil THEN [GG EXCEPT ![g].err = err] ELSE GG
         IN  cancel([G1 EXCEPT ![g].closing = TRUE], g)

exit(GG, g, err) ==
    IF GG[g].closing /\ Is(err, Canceled)
    THEN GG
    ELSE LET G1 == IF GG[g].err = Nil THEN [GG EXCEPT ![g].err = err] ELSE GG
         IN  IF ~G1[g].closing
             THEN cancel([G1 EXCEPT ![g].closing = TRUE], g)
             ELSE G1

\* what Group.runTask hands to g.exit for a task that returned err, NoCall
\* when it calls g.exit not at all
NoCall == [kind |-> "no call", arg |-> ""]

\* exitArg, were mode Exit handled as mode Continue
exitArgExitIgnored(GG, g, name, onExit, err) ==
    IF err # Nil THEN err
    ELSE IF ~GG[g].closing
    THEN CASE onExit = Continue -> NoCall
           [] onExit = ExitMode -> NoCall
           [] onExit = Fail     -> Unexpected(name)
           [] OTHER             -> BadOnExit(name)
    ELSE NoCall

\* exitArg, were the mode looked at also when the group is closing
exitArgAlways(GG, g, name, onExit, err) ==
    IF err # Nil THEN err
    ELSE CASE onExit = Continue -> NoCall
           [] onExit = ExitMode -> Nil
           [] onExit = Fail     -> Unexpected(name)
           [] OTHER             -> BadOnExit(name)

\* exitArg, were mode Continue handled as mode Exit
exitArgContinueExits(GG, g, name, onExit, err) ==
    IF err # Nil THEN err
    ELSE IF ~GG[g].closing
    THEN CASE onExit = Continue -> Nil
           [] onExit = ExitMode -> Nil
           [] onExit = Fail     -> Unexpected(name)
           [] OTHER             -> BadOnExit(name)
    ELSE NoCall

\* exitArg, were mode Fail handled as mode Continue
exitArgFailIgnored(GG, g, name, onExit, err) ==
    IF err # Nil THEN err
    ELSE IF ~GG[g].closing
    THEN CASE onExit = Continue -> NoCall
           [] onExit = ExitMode -> Nil
           [] onExit = Fail     -> NoCall
           [] OTHER             -> BadOnExit(name)
    ELSE NoCall

exitArg(GG, g, name, onExit, err) ==
    IF err # Nil THEN err
    ELSE IF ~GG[g].closing
    THEN CASE onExit = Continue -> NoCall
           [] onExit = ExitMode -> Nil
           [] onExit = Fail     -> Unexpected(name)
           [] OTHER             -> BadOnExit(name)
    ELSE NoCall

\* the history of g after g.exit(a) was called (a = NoCall: not called)
noted(g, a) ==
    IF a = NoCall
    THEN hist
    ELSE IF a = Nil
    THEN [hist EXCEPT
            ![g].quiet = IF ~G[g].closing
                         THEN g = Sub /\ ~G[Root].closing /\ outer = Nil
                         ELSE @]
    ELSE [hist EXCEPT
            ![g].firstFail = IF @ = Nil THEN a ELSE @,
            ![g].firstKept = IF @ = Nil /\ ~(G[g].closing /\ Is(a, Canceled))
                             THEN a ELSE @,
            ![g].parentNil =
                IF hist[g].firstKept = Nil /\ ~(G[g].closing /\ Is(a, Canceled))
                THEN g = Sub /\ G[Root].err = Nil
                ELSE @]

(***************************************************************************)
(* Group.Spawn: the section under g.mu; the goroutine started by the go    *)
(* statement is task slot t.                                               *)
(***************************************************************************)
\* the callers, after g.done = make(chan struct{}): a caller that holds the
\* channel that was g.done holds a channel that is the group's no longer
replaced(g) ==
    [w \in Goroutines |->
        IF W[w].grp = g /\ W[w].ch = Current
        THEN [W[w] EXCEPT !.ch = G[g].done]
        ELSE W[w]]

\* Spawn, were it to keep the channel g.done when g.running is 0
SpawnNoRearm(g, t, onExit) ==
    /\ G[g].exists
    /\ T[t].st = "unspawned"
    /\ \A u \in Tasks : u < t => T[u].st # "unspawned"
    /\ G' = [G EXCEPT ![g].running = @ + 1]
    /\ T' = [T EXCEPT ![t] = [NoTask EXCEPT !.st = "running", !.grp = g,
                                             !.onExit = onExit]]
    /\ UNCHANGED <<outer, crashed, W, R, hist>>

\* Spawn, were it to make a new channel whatever g.running is
SpawnAlwaysRearm(g, t, onExit) ==
    /\ G[g].exists
    /\ T[t].st = "unspawned"
    /\ \A u \in Tasks : u < t => T[u].st # "unspawned"
    /\ G' = [G EXCEPT ![g].done = Open, ![g].running = @ + 1]
    /\ W' = replaced(g)
    /\ T' = [T EXCEPT ![t] = [NoTask EXCEPT !.st = "running", !.grp = g,
                                             !.onExit = onExit]]
    /\ UNCHANGED <<outer, crashed, R, hist>>

Spawn(g, t, onExit) ==
    /\ G[g].exists
    /\ T[t].st = "unspawned"
    /\ \A u \in Tasks : u < t => T[u].st # "unspawned"
    /\ IF G[g].running = 0
       THEN /\ G' = [G EXCEPT ![g].done = Open, ![g].running = @ + 1]
            /\ W' = replaced(g)
       ELSE /\ G' = [G EXCEPT ![g].running = @ + 1]
            /\ W' = W
    /\ T' = [T EXCEPT ![t] = [NoTask EXCEPT !.st = "running", !.grp = g,
                                             !.onExit = onExit]]
    /\ UNCHANGED <<outer, crashed, R, hist>>

(***************************************************************************)
(* Group.runTask.  Its first statement runs the task body, which returns   *)
(* err; the body is opaque and touches no field of the group, so that the  *)
(* value it returns is an input of the step.  The rest runs under g.mu.    *)
(***************************************************************************)
\* runTask, were it to return right after g.exit(err) for a failed task
runTaskEarlyReturn(t, err) ==
    /\ T[t].st = "running"
    /\ LET g  == T[t].grp
           a  == exitArg(G, g, Name(t), T[t].onExit, err)
           G1 == IF a = NoCall THEN G ELSE exit(G, g, a)
           n  == IF err # Nil THEN G1[g].running ELSE G1[g].running - 1
       IN  /\ G' = [G1 EXCEPT ![g].running = n,
                              ![g].done = IF n = 0 THEN Closed ELSE @]
           /\ crashed' = (crashed \/ (n = 0 /\ G1[g].done = Closed))
           /\ hist' = [noted(g, a) EXCEPT ![g].orderly =
                          @ \/ (T[t].onExit = ExitMode /\ err = Nil
                                /\ G[g].err = Nil)]
           /\ T' = [T EXCEPT ![t] = [NoTask EXCEPT !.st = "finished", !.grp = g,
                                                    !.failed = (err # Nil)]]
    /\ UNCHANGED <<outer, W, R>>

\* runTask, were it to leave g.done open when the count reaches 0
runTaskNoClose(t, err) ==
    /\ T[t].st = "running"
    /\ LET g  == T[t].grp
           a  == exitArg(G, g, Name(t), T[t].onExit, err)
           G1 == IF a = NoCall THEN G ELSE exit(G, g, a)
           n  == G1[g].running - 1
       IN  /\ G' = [G1 EXCEPT ![g].running = n]
           /\ crashed' = crashed
           /\ hist' = [noted(g, a) EXCEPT ![g].orderly =
                          @ \/ (T[t].onExit = ExitMode /\ err = Nil
                                /\ G[g].err = Nil)]
           /\ T' = [T EXCEPT ![t] = [NoTask EXCEPT !.st = "finished", !.grp = g,
                                                    !.failed = (err # Nil)]]
    /\ UNCHANGED <<outer, W, R>>

runTask(t, err) ==
    /\ T[t].st = "running"
    /\ LET g  == T[t].grp
           a  == exitArg(G, g, Name(t), T[t].onExit, err)
           G1 == IF a = NoCall THEN G ELSE exit(G, g, a)
           n  == G1[g].running - 1
       IN  /\ G' = [G1 EXCEPT ![g].running = n,
                              ![g].done = IF n = 0 THEN Closed ELSE @]
           /\ crashed' = (crashed \/ (n = 0 /\ G1[g].done = Closed))
           /\ hist' = [noted(g, a) EXCEPT ![g].orderly =
                          @ \/ (T[t].onExit = ExitMode /\ err = Nil
                                /\ G[g].err = Nil)]
           /\ T' = [T EXCEPT ![t] = [NoTask EXCEPT !.st = "finished", !.grp = g,
                                                    !.failed = (err # Nil)]]
    /\ UNCHANGED <<outer, W, R>>

(***************************************************************************)
(* Group.Exit                                                              *)
(***************************************************************************)
\* the errors Exit is called with: none, an error, a cancellation
ExitErrors == {Nil, Err("E1"), Canceled}

\* Exit, were it to put err in g.err whatever g.err holds
ExitOverwrites(g, err) ==
    /\ G[g].exists
    /\ G' = [exit(G, g, err) EXCEPT ![g].err = err]
    /\ hist' = noted(g, err)
    /\ UNCHANGED <<outer, crashed, T, W, R>>

Exit(g, err) ==
    /\ G[g].exists
    /\ G' = exit(G, g, err)
    /\ hist' = noted(g, err)
    /\ UNCHANGED <<outer, crashed, T, W, R>>

\* the context Root was made from is cancelled: its Err() becomes e
CancelOuter(e) ==
    /\ outer = Nil
    /\ outer' = e
    /\ G' = cancelCtx(G, Root, e)
    /\ UNCHANGED <<crashed, T, W, R, hist>>

(***************************************************************************)
(* Group.Running, Group.Done, Group.Wait and Group.Complete, each called   *)
(* by a caller w.  A caller makes one call of Wait or Complete; Running   *)
(* and Done only read a field under g.mu.                                  *)
(***************************************************************************)
\* Running(): g.running, read under g.mu
Running(g) == G[g].running

\* Done(): g.done, read under g.mu
Done(g) == Current

\* Wait calls g.Done().  pre is the number of Spawn calls made before it,
\* kept while the call is blocked on the channel.
Wait(w, g) ==
    /\ G[g].exists
    /\ W[w].pc = "idle"
    /\ W' = [W EXCEPT ![w] = [Idle EXCEPT !.pc = "blocked", !.kind = "Wait",
                                          !.grp = g, !.ch = Done(g),
                                          !.pre = Spawned]]
    /\ UNCHANGED <<outer, G, crashed, T, R, hist>>

\* Complete(ctx), ctx being the context g was made from: the select returns
\* once ctx or g.ctx is done
Complete(w, g) ==
    /\ G[g].exists
    /\ W[w].pc = "idle"
    /\ ParentErr(g) # Nil \/ Context(g) # Nil
    /\ W' = [W EXCEPT ![w] = [Idle EXCEPT !.pc = "woken", !.kind = "Complete",
                                          !.grp = g]]
    /\ UNCHANGED <<outer, G, crashed, T, R, hist>>

\* Complete calls g.Wait(), which calls g.Done()
CompleteWait(w) ==
    /\ W[w].pc = "woken"
    /\ W' = [W EXCEPT ![w].pc = "blocked", ![w].ch = Done(W[w].grp)]
    /\ UNCHANGED <<outer, G, crashed, T, R, hist>>

\* the channel caller w holds is closed
isClosed(w) ==
    \/ W[w].ch = Closed
    \/ W[w].ch = Current /\ G[W[w].grp].done = Closed

\* <-g.Done() in Wait: the receive returns once the channel is closed
WaitRecv(w) ==
    /\ W[w].pc = "blocked"
    /\ isClosed(w)
    /\ W' = [W EXCEPT ![w].pc = "received", ![w].ch = NoChan, ![w].pre = 0]
    /\ UNCHANGED <<outer, G, crashed, T, R, hist>>

\* return g.err in Wait: g.err is read without g.mu
WaitReturn(w) ==
    /\ W[w].pc = "received"
    /\ LET e == G[W[w].grp].err
       IN  W' = IF W[w].kind = "Wait"
                THEN [W EXCEPT ![w].pc = "done", ![w].ret = e]
                ELSE [W EXCEPT ![w].pc = "waited", ![w].got = e]
    /\ UNCHANGED <<outer, G, crashed, T, R, hist>>

\* completeResult, were Complete to return what g.Wait() returned
completeResultOfWait(got, ctxErr) == got

\* the value Complete returns when g.Wait() returned got
completeResult(got, ctxErr) == IF got # Nil THEN got ELSE ctxErr

CompleteReturn(w) ==
    /\ W[w].pc = "waited"
    /\ W' = [W EXCEPT ![w].pc = "done", ![w].got = Nil,
                      ![w].ret = completeResult(W[w].got, ParentErr(W[w].grp))]
    /\ UNCHANGED <<outer, G, crashed, T, R, hist>>

(***************************************************************************)
(* The group on its own: any caller may call any method at any time.       *)
(***************************************************************************)
Next ==
    \/ \E t \in Tasks, onExit \in OnExit : Spawn(Root, t, onExit)
    \/ \E t \in Tasks, err \in TaskErrors : runTask(t, err)
    \/ \E err \in ExitErrors : Exit(Root, err)
    \/ CancelOuter(Canceled)
    \/ \E w \in Callers : Wait(w, Root)
    \/ \E w \in Callers : Complete(w, Root)
    \/ \E w \in Callers : CompleteWait(w)
    \/ \E w \in Callers : WaitRecv(w)
    \/ \E w \in Callers : WaitReturn(w)
    \/ \E w \in Callers : CompleteReturn(w)

Spec == Init /\ [][Next]_vars

(***************************************************************************)
(* The group under fair scheduling.  A goroutine that can take a step      *)
(* takes it: the receive of Wait once the channel is closed, the return of *)
(* Wait and of Complete, the call of Wait in Complete.  A task returns     *)
(* once the context of its group is done.  Tasks are spawned MaxTasks      *)
(* times at most.  Nothing obliges a caller to call Spawn, Exit, Wait or   *)
(* Complete, or a task to return while its context is live.                *)
(***************************************************************************)
\* task t returns, the context of its group being done
returnsOnCancel(t) ==
    /\ G[T[t].grp].ctxErr # Nil
    /\ \E err \in TaskErrors : runTask(t, err)

\* the caller whose Wait or Complete is followed: callers read the group
\* and do not act on one another
Pending == 1

Fairness ==
    /\ \A t \in Tasks : WF_vars(returnsOnCancel(t))
    /\ WF_vars(CompleteWait(Pending))
    /\ WF_vars(WaitRecv(Pending))
    /\ WF_vars(WaitReturn(Pending))
    /\ WF_vars(CompleteReturn(Pending))

NextLive ==
    \/ \E t \in Tasks, onExit \in OnExit : Spawn(Root, t, onExit)
    \/ \E t \in Tasks, err \in TaskErrors : runTask(t, err)
    \/ \E err \in ExitErrors : Exit(Root, err)
    \/ CancelOuter(Canceled)
    \/ Wait(Pending, Root)
    \/ Complete(Pending, Root)
    \/ CompleteWait(Pending)
    \/ WaitRecv(Pending)
    \/ WaitReturn(Pending)
    \/ CompleteReturn(Pending)

SpecLive == Init /\ [][NextLive]_vars /\ Fairness

(***************************************************************************)
(* Run(ctx, setup), which is                                               *)
(*     g := NewGroup(ctx)                                                  *)
(*     if err := setup(g.Context(), g.Spawn); err != nil { g.Exit(err) }   *)
(*     return g.Wait()                                                     *)
(* The group is Root and is known to Run only; setup and the tasks hold    *)
(* g.Spawn.  Run's call of g.Wait() is the call of caller 1.               *)
(***************************************************************************)
InitRun ==
    /\ outer = Nil
    /\ G = [g \in Groups |-> IF g = Root THEN NewGroup(Nil) ELSE NoGroup]
    /\ crashed = FALSE
    /\ T = [t \in Tasks |-> NoTask]
    /\ W = [w \in Goroutines |-> Idle]
    /\ R = [NoRun EXCEPT !.pc = "setup"]
    /\ hist = [g \in Groups |-> NoHist]

\* setup, or a task that is running, calls spawn
RunSpawn(t, onExit) ==
    /\ R.pc = "setup" \/ Active(Root) # {}
    /\ Spawn(Root, t, onExit)

\* setup returns err
RunSetupReturn(err) ==
    /\ R.pc = "setup"
    /\ R' = [R EXCEPT !.pc = IF err # Nil THEN "exit" ELSE "wait", !.err = err]
    /\ UNCHANGED <<outer, G, crashed, T, W, hist>>

\* g.Exit(err).  clean: no error is recorded when g.Exit takes g.mu;
\* kept: clean, and err is no cancellation that arrives during shutdown.
RunExit ==
    /\ R.pc = "exit"
    /\ G' = exit(G, Root, R.err)
    /\ hist' = noted(Root, R.err)
    /\ R' = [R EXCEPT !.pc = "wait",
                      !.clean = (G[Root].err = Nil),
                      !.kept = (G[Root].err = Nil
                                /\ ~(G[Root].closing /\ Is(R.err, Canceled)))]
    /\ UNCHANGED <<outer, crashed, T, W>>

\* return g.Wait()
RunWait ==
    /\ R.pc = "wait"
    /\ Wait(1, Root)

\* Run has returned: its g.Wait() has
RunReturned == R.pc = "wait" /\ W[1].pc = "done"

NextRun ==
    \/ \E t \in Tasks, onExit \in OnExit : RunSpawn(t, onExit)
    \/ \E t \in Tasks, err \in TaskErrors : runTask(t, err)
    \/ CancelOuter(Canceled)
    \/ \E err \in TaskErrors : RunSetupReturn(err)
    \/ RunExit
    \/ RunWait
    \/ WaitRecv(1)
    \/ WaitReturn(1)

SpecRun == InitRun /\ [][NextRun]_vars

(***************************************************************************)
(* A subgroup.  NewSubgroup(spawn, name, onExit), spawn being Root.Spawn,  *)
(* spawns a task in Root whose body makes the group Sub from the context   *)
(* of the task, which derives from Root's, hands Sub over and returns      *)
(* Sub.Complete(ctx).  NewSubgroup returns Sub once it was handed over, so *)
(* that one action makes the task and the group.  The goroutine of that    *)
(* task is Attach.  Its Complete is the Complete of any caller.            *)
(***************************************************************************)
\* NewSubgroup, were Sub made from the context Root was made from
NewSubgroupDetached(t, onExit) ==
    /\ G[Root].exists /\ ~G[Sub].exists
    /\ T[t].st = "unspawned"
    /\ \A u \in Tasks : u < t => T[u].st # "unspawned"
    /\ G' = [G EXCEPT ![Root].done = IF G[Root].running = 0 THEN Open ELSE @,
                      ![Root].running = @ + 1,
                      ![Sub] = NewGroup(Nil)]
    /\ W' = [IF G[Root].running = 0 THEN replaced(Root) ELSE W
                EXCEPT ![Attach] = [Idle EXCEPT !.grp = Sub]]
    /\ T' = [T EXCEPT ![t] = [NoTask EXCEPT !.st = "running", !.grp = Root,
                                             !.onExit = onExit, !.sub = TRUE]]
    /\ UNCHANGED <<outer, crashed, R, hist>>

NewSubgroup(t, onExit) ==
    /\ G[Root].exists /\ ~G[Sub].exists
    /\ T[t].st = "unspawned"
    /\ \A u \in Tasks : u < t => T[u].st # "unspawned"
    /\ G' = [G EXCEPT ![Root].done = IF G[Root].running = 0 THEN Open ELSE @,
                      ![Root].running = @ + 1,
                      ![Sub] = NewGroup(G[Root].ctxErr)]
    /\ W' = [IF G[Root].running = 0 THEN replaced(Root) ELSE W
                EXCEPT ![Attach] = [Idle EXCEPT !.grp = Sub]]
    /\ T' = [T EXCEPT ![t] = [NoTask EXCEPT !.st = "running", !.grp = Root,
                                             !.onExit = onExit, !.sub = TRUE]]
    /\ UNCHANGED <<outer, crashed, R, hist>>

\* the task of NewSubgroup returns what Sub.Complete(ctx) returned
SubReturn(t) ==
    /\ T[t].sub
    /\ W[Attach].pc = "done"
    /\ runTask(t, W[Attach].ret)

\* the errors the tasks return, the errors Exit is called with
SubTaskErrors == {Nil, Err("E2"), Canceled}
SubExitErrors == {Nil, Err("E1")}

\* the caller that calls Root.Wait(), once the subgroup is attached
Waiter == 1

RootWait ==
    /\ G[Sub].exists
    /\ Wait(Waiter, Root)

NextSub ==
    \/ \E t \in Tasks, onExit \in OnExit : NewSubgroup(t, onExit)
    \/ \E g \in Groups, t \in Tasks, onExit \in OnExit : Spawn(g, t, onExit)
    \/ \E t \in Tasks, err \in SubTaskErrors : ~T[t].sub /\ runTask(t, err)
    \/ \E t \in Tasks : SubReturn(t)
    \/ \E g \in Groups, err \in SubExitErrors : Exit(g, err)
    \/ CancelOuter(Canceled)
    \/ Complete(Attach, Sub)
    \/ CompleteWait(Attach)
    \/ CompleteReturn(Attach)
    \/ RootWait
    \/ \E w \in {Attach, Waiter} : WaitRecv(w)
    \/ \E w \in {Attach, Waiter} : WaitReturn(w)

SpecSub == Init /\ [][NextSub]_vars

(***************************************************************************)
(* Tasks that panic.  The function runTask(ctx, task) of the package runs  *)
(* the task body under recover: a body that panics with v yields the error *)
(* PanicError{Value: v} and a body that returns yields what it returned.   *)
(* Group.runTask reports that error.  The group is the one of Run.         *)
(***************************************************************************)
\* what a task body does: it returns err, or it panics with v
Returns(err) == [how |-> "return", val |-> err]
Panics(v) == [how |-> "panic", val |-> v]
Outcomes ==
    {Returns(err) : err \in {Nil, Err("E1"), Canceled}}
        \cup {Panics(v) : v \in Payloads}

\* runTask(ctx, task), were the panic swallowed
runTaskOutcomeLost(o) == IF o.how = "panic" THEN Nil ELSE o.val

\* runTask(ctx, task): the error Group.runTask gets
runTaskOutcome(o) == IF o.how = "panic" THEN PanicError(o.val) ELSE o.val

\* the body of task t ends with outcome o and Group.runTask reports it
taskEnds(t, o) == runTask(t, runTaskOutcome(o))

NextPanic ==
    \/ \E t \in Tasks, onExit \in OnExit : RunSpawn(t, onExit)
    \/ \E t \in Tasks, o \in Outcomes : taskEnds(t, o)
    \/ CancelOuter(Canceled)
    \/ \E err \in {Nil, Err("E1")} : RunSetupReturn(err)
    \/ RunExit
    \/ RunWait
    \/ WaitRecv(1)
    \/ WaitReturn(1)

SpecPanic == InitRun /\ [][NextPanic]_vars

\* the step is one of task t reporting to its group
Reports(t) == T[t].st = "running" /\ T'[t].st = "finished"

(***************************************************************************)
(* The properties.                                                         *)
(***************************************************************************)
\* g's context is done
Cancelled(g) == G[g].ctxErr # Nil

\* C1: when a task returns a non-nil error while its group is not closing,
\* the step that takes the task off the running count also sets closing,
\* cancels the group's context and, the result being unset, makes that error
\* the result; and whenever a failure was reported the context is cancelled.
C1_FailFast ==
    /\ [][\A t \in Tasks, err \in TaskErrors \ {Nil} :
            (Reports(t) /\ ~G[T[t].grp].closing /\ runTask(t, err)) =>
                LET g == T[t].grp
                IN  /\ T'[t].st = "finished"
                    /\ G'[g].running = G[g].running - 1
                    /\ G'[g].closing
                    /\ Cancelled(g)'
                    /\ G[g].err = Nil => G'[g].err = err]_vars
    /\ [](\A g \in Groups : hist[g].firstFail # Nil => G[g].closing /\ Cancelled(g))

\* a task has failed with E1 while its sibling still runs: the group is
\* closing, its context is cancelled by the group itself, the result is E1
C1_Witness ==
    \E t, u \in Tasks :
        /\ T[t].st = "finished" /\ T[t].failed /\ T[u].st = "running"
        /\ G[Root].closing /\ G[Root].ctxErr = Canceled /\ outer = Nil
        /\ G[Root].err = Err("E1") /\ G[Root].running = 1

\* the tasks of g that have returned, and those that returned an error
Finished(g) == {t \in Tasks : T[t].grp = g /\ T[t].st = "finished"}
FailedTasks(g) == {t \in Finished(g) : T[t].failed}

\* caller w has returned from Wait, from Complete
WaitDone(w) == W[w].pc = "done" /\ W[w].kind = "Wait"
CompleteDone(w) == W[w].pc = "done" /\ W[w].kind = "Complete"

\* C2: whenever the receive of <-g.Done() in Wait can return, the channel it
\* holds being closed, every task that was spawned before Wait called Done()
\* has returned and reported, whether or not the group's context was
\* cancelled.
C2_WaitNotEarly ==
    \A w \in Callers :
        (W[w].pc = "blocked" /\ isClosed(w)) =>
            \A t \in 1..W[w].pre : T[t].grp = W[w].grp => T[t].st = "finished"

\* a Wait that was called after two Spawn calls is let through by the channel
\* of a group whose context is cancelled
C2_Witness ==
    \E w \in Callers :
        /\ W[w].pc = "blocked" /\ isClosed(w) /\ W[w].kind = "Wait" /\ W[w].pre >= 2
        /\ Cancelled(Root)

C5_ExitModeKeepsNil ==
    /\ [][\A t \in Tasks, err \in TaskErrors \ {Nil} :
            (Reports(t) /\ hist[T[t].grp].orderly
               /\ G[T[t].grp].err = Nil /\ runTask(t, err)) =>
                G'[T[t].grp].err = Nil]_vars
    /\ [][\A w \in Callers :
            (WaitReturn(w) /\ W[w].kind = "Wait" /\ hist[W[w].grp].orderly) =>
                W'[w].ret = Nil]_vars

\* C5, amended: a task of mode Exit that returns nil leaves the group closing
\* with its context cancelled and the result as it was; after it has done so
\* with the result nil, Wait returns nil or an error that is not a
\* cancellation (one that a sibling or Exit has reported since).
C5_ExitMode ==
    /\ [][\A t \in Tasks :
            (Reports(t) /\ T[t].onExit = ExitMode /\ runTask(t, Nil)) =>
                LET g == T[t].grp
                IN  /\ G'[g].closing
                    /\ Cancelled(g)'
                    /\ G'[g].err = G[g].err]_vars
    /\ [][\A w \in Callers :
            (WaitReturn(w) /\ W[w].kind = "Wait" /\ hist[W[w].grp].orderly) =>
                (W'[w].ret = Nil \/ ~Is(W'[w].ret, Canceled))]_vars

\* after a task of mode Exit returned nil, its sibling has failed with E1 and
\* Wait has returned E1
C5_Witness ==
    \E w \in Callers :
        /\ hist[Root].orderly /\ WaitDone(w) /\ W[w].ret = Err("E1")
        /\ FailedTasks(Root) # {} /\ Active(Root) = {}

C7_ContinueMode ==
    [][\A t \in Tasks :
         (Reports(t) /\ T[t].onExit = Continue /\ runTask(t, Nil)) =>
             LET g == T[t].grp
                 n == G[g].running - 1
             IN  /\ G' = [G EXCEPT ![g].running = n,
                                   ![g].done = IF n = 0 THEN Closed ELSE @]
                 /\ outer' = outer]_vars

\* a task has returned nil and the group goes on: it is not closing, its
\* context is live and a sibling runs
C7_Witness ==
    /\ \E t \in Finished(Root) : ~T[t].failed
    /\ ~G[Root].closing /\ ~Cancelled(Root) /\ G[Root].err = Nil
    /\ Active(Root) # {}

\* C8: Running() is the number of tasks Spawn has counted that have not
\* reported; it is not negative; no step that changes it is a step of Exit,
\* Wait (with its call of Done) or Complete.
C8_RunningCount ==
    /\ [](\A g \in Groups : Running(g) = Cardinality(Active(g)) /\ Running(g) >= 0)
    /\ [][(\E g \in Groups : Running(g)' # Running(g)) =>
            ~(\/ \E g \in Groups, err \in ExitErrors : Exit(g, err)
              \/ \E w \in Callers, g \in Groups : Wait(w, g) \/ Complete(w, g)
              \/ \E w \in Callers : \/ CompleteWait(w) \/ WaitRecv(w)
                                    \/ WaitReturn(w) \/ CompleteReturn(w))]_vars

\* one task has failed, one has returned nil and none runs: the count went
\* up twice and down twice
C8_Witness ==
    /\ Cardinality(Finished(Root)) = 2 /\ Cardinality(FailedTasks(Root)) = 1
    /\ Running(Root) = 0

\* C9, as stated: Complete returns the result when it is not nil and the
\* cancellation cause of the outer context otherwise, never nil.
C9_CompleteNeverNil == \A w \in Callers : CompleteDone(w) => W[w].ret # Nil

\* C9, amended: Complete returns the result when it is not nil and outer.Err()
\* otherwise, which is nil while the outer context is live; it returns nil
\* only when the group was shut down by itself with no error.
C9_CompleteResult ==
    /\ [][\A w \in Callers :
            CompleteReturn(w) =>
                W'[w].ret = IF W[w].got # Nil THEN W[w].got
                            ELSE ParentErr(W[w].grp)]_vars
    /\ [](\A w \in Callers :
            (CompleteDone(w) /\ W[w].ret = Nil) => G[W[w].grp].closing)

\* Complete was woken by the group's own context, after an orderly exit, and
\* has returned nil while the outer context is live
C9_Witness ==
    \E w \in Callers :
        /\ CompleteDone(w) /\ W[w].ret = Nil
        /\ outer = Nil /\ G[Root].ctxErr = Canceled /\ G[Root].err = Nil

C12_ShutdownCompletes ==
    /\ \A g \in Groups :
          G[g].closing ~> (G[g].running = 0 /\ G[g].done = Closed)
    /\ (W[Pending].pc = "blocked" /\ G[W[Pending].grp].closing)
          ~> W[Pending].pc = "done"
    /\ W[Pending].pc = "woken" ~> W[Pending].pc = "done"

\* a Wait has returned E1 from a group that is closing: its two tasks have
\* returned, the count is 0 and g.done is closed
C12_Witness ==
    \E w \in Callers :
        /\ WaitDone(w) /\ W[w].ret = Err("E1")
        /\ G[Root].closing /\ G[Root].running = 0 /\ G[Root].done = Closed
        /\ Cardinality(Finished(Root)) = 2

\* C13: in every state (all of them have g.mu released), the channel g.done
\* is open if and only if g.running > 0; so the channel a Wait got from
\* Done() and that still is g.done lets the Wait through exactly when no
\* task is running.
C13_GateInvariant ==
    /\ \A g \in Groups :
          G[g].exists => ((G[g].done = Open) <=> (Running(g) > 0))
    /\ \A w \in Callers :
          (W[w].pc = "blocked" /\ W[w].ch = Current) =>
              (isClosed(w) <=> Running(W[w].grp) = 0)

\* the count went to 0 and up again: a task has returned, another runs, the
\* channel g.done is open, and a Wait holds the channel that was closed
C13_Witness ==
    /\ Finished(Root) # {} /\ Running(Root) = 1 /\ G[Root].done = Open
    /\ \E w \in Callers : W[w].pc = "blocked" /\ W[w].ch = Closed

\* the step is the locked section of a Spawn call that starts task t
Spawns(t) == T[t].st = "unspawned" /\ T'[t].st = "running"

\* C14: under every interleaving of Spawn calls and task completions, a
\* Spawn makes a new open channel exactly when it takes the count from 0 to
\* 1, and then the channel it replaces is closed already; a completion
\* closes g.done exactly when it takes the count to 0, and g.done is open
\* then; no closed channel is closed again; no caller is left with a
\* channel that will never be closed; after a Spawn g.done is open.
C14_RearmRaceFree ==
    /\ [](~crashed)
    /\ [](\A w \in Callers : W[w].ch # Open)
    /\ [][\A t \in Tasks :
            Spawns(t) =>
                LET g == T'[t].grp
                IN  /\ G'[g].running = G[g].running + 1
                    /\ G'[g].done = Open
                    /\ IF G[g].running = 0
                       THEN G[g].done = Closed /\ W' = replaced(g)
                       ELSE G[g].done = Open /\ W' = W]_vars
    /\ [][\A t \in Tasks :
            Reports(t) =>
                LET g == T[t].grp
                IN  /\ G'[g].running = G[g].running - 1
                    /\ G[g].done = Open
                    /\ G'[g].done = IF G'[g].running = 0 THEN Closed ELSE Open]_vars

\* a task was spawned while another ran and a Wait was blocked; one of the
\* two has returned and the Wait still holds g.done, which is open
C14_Witness ==
    /\ Cardinality(Finished(Root)) = 1 /\ Running(Root) = 1
    /\ G[Root].done = Open
    /\ \E w \in Callers : W[w].pc = "blocked" /\ W[w].ch = Current /\ W[w].pre = 1

\* C15: once g.err is not nil no step changes it, be it a task completion,
\* an Exit call, a Spawn call or a step of Wait or Complete; so the result
\* changes at most once, from nil to the error that is kept.
C15_ResultStable ==
    /\ [][\A g \in Groups : G[g].err # Nil => G'[g].err = G[g].err]_vars
    /\ [](\A g \in Groups : G[g].err # Nil => G[g].err = hist[g].firstKept)

\* the result is E2 after both tasks have failed and none runs: whatever the
\* other task returned did not replace it
C15_Witness ==
    /\ G[Root].err = Err("E2") /\ Cardinality(FailedTasks(Root)) = 2
    /\ Running(Root) = 0 /\ hist[Root].firstFail = Err("E2")

C17_NestedShutdownComplete ==
    [][(W[Waiter].pc = "blocked" /\ W'[Waiter].pc = "received")
          => Active(Sub) = {}]_vars

\* the step is the one of the subgroup's task reporting to the parent what
\* Sub.Complete(ctx) returned
SubReports(t) == Reports(t) /\ T[t].sub

\* C18, as stated: when the parent is closing the context of the subgroup
\* is done; Complete of a subgroup whose result is nil or context.Canceled
\* then returns a cancellation, which the parent drops, keeping its result.
\* And an error E' that is no cancellation, returned by a task of the
\* subgroup while the parent had no result and returned by Complete, is the
\* parent's result once the subgroup's task has reported it, and the
\* parent's context is cancelled.
C18_CascadeAndReport ==
    /\ [](G[Root].closing /\ G[Sub].exists => Cancelled(Sub))
    /\ [][(W[Attach].pc = "waited" /\ W'[Attach].pc = "done"
             /\ G[Root].closing /\ W[Attach].got \in {Nil, Canceled})
           => Is(W'[Attach].ret, Canceled)]_vars
    /\ [][\A t \in Tasks :
            (SubReports(t) /\ G[Root].closing /\ Is(W[Attach].ret, Canceled))
              => G'[Root].err = G[Root].err]_vars
    /\ [][\A t \in Tasks :
            (SubReports(t) /\ W[Attach].ret # Nil /\ ~Is(W[Attach].ret, Canceled)
               /\ hist[Sub].firstKept = W[Attach].ret /\ hist[Sub].parentNil)
              => /\ G'[Root].err = W[Attach].ret
                 /\ G'[Root].closing /\ Cancelled(Root)']_vars

\* C18, amended: as stated, but the error E' that Complete returns is the
\* parent's result once the subgroup's task has reported it if the parent
\* has no result at that report; a result the parent got in the meantime
\* stays.
C18_Cascade ==
    /\ [](G[Root].closing /\ G[Sub].exists => Cancelled(Sub))
    /\ [][(W[Attach].pc = "waited" /\ W'[Attach].pc = "done"
             /\ G[Root].closing /\ W[Attach].got \in {Nil, Canceled})
           => Is(W'[Attach].ret, Canceled)]_vars
    /\ [][\A t \in Tasks :
            (SubReports(t) /\ G[Root].closing /\ Is(W[Attach].ret, Canceled))
              => G'[Root].err = G[Root].err]_vars
    /\ [][\A t \in Tasks :
            (SubReports(t) /\ W[Attach].ret # Nil /\ ~Is(W[Attach].ret, Canceled))
              => /\ G'[Root].err = IF G[Root].err = Nil THEN W[Attach].ret
                                   ELSE G[Root].err
                 /\ G'[Root].closing /\ Cancelled(Root)']_vars

\* the parent was shut down by Exit(E1); the task of the subgroup has
\* returned context.Canceled, Complete has returned it, the parent has
\* dropped it, and the parent's Wait has returned E1
C18_Witness ==
    /\ G[Root].err = Err("E1") /\ hist[Root].firstFail = Err("E1")
    /\ G[Sub].err = Canceled /\ FailedTasks(Sub) # {}
    /\ W[Attach].pc = "done" /\ W[Attach].ret = Canceled
    /\ Running(Root) = 0
    /\ WaitDone(Waiter) /\ W[Waiter].ret = Err("E1")

\* C19: in every state a result that is not nil implies closing, and
\* closing implies that the context of the group is done; no step takes
\* closing back to false; g.cancel() is called once at most; and a call of
\* g.exit, by Exit or by a task, that is not a cancellation dropped during
\* shutdown leaves closing true whatever its argument.
C19_ShutdownState ==
    /\ [](\A g \in Groups :
            /\ G[g].err # Nil => G[g].closing
            /\ G[g].closing => Cancelled(g)
            /\ G[g].cancels <= 1)
    /\ [][/\ \A g \in Groups : G[g].closing => G'[g].closing
          /\ (T' = T /\ W' = W /\ outer' = outer) =>
                \A g \in Groups, err \in ExitErrors :
                    (~(G[g].closing /\ Is(err, Canceled)) /\ Exit(g, err))
                        => G'[g].closing
          /\ \A t \in Tasks :
                Reports(t) =>
                    \A err \in TaskErrors :
                        (exitArg(G, T[t].grp, Name(t), T[t].onExit, err) # NoCall
                           /\ ~(G[T[t].grp].closing /\ Is(err, Canceled))
                           /\ runTask(t, err))
                          => G'[T[t].grp].closing]_vars

\* g.exit was called by two tasks that failed, first with E1: the group is
\* closing, its result is E1 and g.cancel() was called once
C19_Witness ==
    /\ G[Root].closing /\ G[Root].cancels = 1 /\ Cancelled(Root)
    /\ hist[Root].firstFail = Err("E1") /\ G[Root].err = Err("E1")
    /\ Cardinality(FailedTasks(Root)) = 2 /\ outer = Nil

\* C20, as stated: a subgroup attached with mode Fail whose first g.exit
\* call was g.exit(nil), made while the parent was not closing and the
\* outer context was live, and whose tasks have returned nil or
\* context.Canceled: its Complete has returned nil, and the report of the
\* subgroup's task makes "task <name> terminated unexpectedly" the parent's
\* result and cancels the parent's context.
C20_OrderlySubgroupFails ==
    [][\A t \in Tasks :
         (SubReports(t) /\ T[t].onExit = Fail
            /\ hist[Sub].quiet /\ hist[Sub].firstKept = Nil)
           => /\ W[Attach].ret = Nil
              /\ G'[Root].err = Unexpected(Name(t))
              /\ G'[Root].closing /\ Cancelled(Root)']_vars

\* C20, amended: Complete of a subgroup whose result is nil returns nil
\* when the context the subgroup was made from is live still at its return,
\* and a cancellation otherwise; Complete returns nil only when the
\* subgroup is closing; when Complete has returned nil and the parent is
\* not closing at the report, the report of a subgroup attached with mode
\* Fail makes "task <name> terminated unexpectedly" the parent's result and
\* cancels the parent's context; in every case the parent is closing and its
\* context is cancelled after the report.
C20_OrderlySubgroup ==
    /\ [][(W[Attach].pc = "waited" /\ W'[Attach].pc = "done"
             /\ W[Attach].got = Nil)
           => W'[Attach].ret = G[Root].ctxErr]_vars
    /\ [](W[Attach].pc = "done" /\ W[Attach].ret = Nil => G[Sub].closing)
    /\ [][\A t \in Tasks :
            (SubReports(t) /\ T[t].onExit = Fail
               /\ W[Attach].ret = Nil /\ ~G[Root].closing)
              => /\ G[Root].err = Nil
                 /\ G'[Root].err = Unexpected(Name(t))
                 /\ G'[Root].closing /\ Cancelled(Root)']_vars
    /\ [][\A t \in Tasks :
            (SubReports(t) /\ T[t].onExit = Fail)
              => G'[Root].closing /\ Cancelled(Root)']_vars

\* Exit(nil) was called on the subgroup, attached with mode Fail, while the
\* parent ran on; the task of the subgroup has returned context.Canceled,
\* Complete has returned nil, and the parent's result names the subgroup
C20_Witness ==
    /\ hist[Sub].quiet /\ G[Sub].closing /\ G[Sub].err = Nil
    /\ FailedTasks(Sub) # {}
    /\ W[Attach].pc = "done" /\ W[Attach].ret = Nil
    /\ \E t \in Tasks :
          /\ T[t].st = "finished" /\ T[t].grp = Root
          /\ G[Root].err = Unexpected(Name(t))
    /\ G[Root].closing /\ G[Root].ctxErr = Canceled /\ outer = Nil

TypeOK ==
    /\ outer \in {Nil, Canceled}
    /\ \A g \in Groups : G[g].running \in 0..MaxTasks /\ G[g].done \in {Open, Closed}
    /\ \A t \in Tasks : T[t].st \in {"unspawned", "running", "finished"}
    /\ \A w \in Goroutines : W[w].ch \in {NoChan, Current, Open, Closed}

====
